---- MODULE Spec2Model ----
(***************************************************************************)
(* Model of tracklist2cue: the three command-line entry points             *)
(* (tracklist2cue, tracklist2mp3, cue2mp3) and the utilities they call     *)
(* (convertTracklistToCue, parseCueFile, getMp3Duration, splitMp3WithCue,  *)
(* formatTime, cueTimeToSeconds, parseTracklist, after).                   *)
(*                                                                         *)
(* Times are exact rationals counted in ticks (TicksPerSecond per second), *)
(* fine enough for CD frames (1/75 s) and for 1/10000 s.                   *)
(* Strings that are computed on are sequences of one-character strings.    *)
(***************************************************************************)
EXTENDS Integers, Sequences, FiniteSets, TLC

VARIABLES
    entry,            \* which script runs
    argv,             \* user arguments: argv[k] is process.argv[k + 1]
    pc,               \* position of main / of the awaited utility
    cueFile,          \* the CUE path on disk: "absent", "present", "generated"
    cueContent,       \* index times of the CUE sheet written by this run
    outDirExists,     \* the output directory exists
    io,               \* kinds of file / subprocess operations attempted
    diag,             \* kinds of messages printed on stderr
    exitStatus,       \* process exit status, -1 while the process runs
    convertFailed,    \* convertTracklistToCue caught an error
    tracks,           \* ParsedCueFile.tracks
    totalDuration,    \* result of getMp3Duration
    i,                \* loop index of splitMp3WithCue (1-based)
    outputFilePaths,  \* splitMp3WithCue's result list
    requests,         \* ffmpeg invocations issued so far, in order
    running,          \* subprocesses spawned and not yet closed
    probeProc,        \* what the ffprobe process really did
    ffmpegProc,       \* what the last finished ffmpeg process really did
    splitResult,      \* splitMp3WithCue's promise: "none", "resolved", "rejected"
    err,              \* the Error that rejected, NoError if none
    fnIn,             \* input of the pure function under test
    fnOut             \* its result

vars == <<entry, argv, pc, cueFile, cueContent, outDirExists, io, diag,
          exitStatus, convertFailed, tracks, totalDuration, i,
          outputFilePaths, requests, running, probeProc, ffmpegProc,
          splitResult, err, fnIn, fnOut>>

pipeVars == <<entry, argv, cueFile, cueContent, outDirExists, io, diag,
              exitStatus, convertFailed, tracks, totalDuration, i,
              outputFilePaths, requests, running, probeProc, ffmpegProc,
              splitResult, err>>

----------------------------------------------------------------------------
(* Bounds *)

MaxTracks == 3
MaxHours == 1
MaxLen == 6

(* Program constants *)

FramesPerSecond == 75

TicksPerSecond == FramesPerSecond * 400

Secs(n) == n * TicksPerSecond

Undefined == "undefined"
NoError == [type |-> "none", hasCode |-> FALSE, code |-> 0, stderr |-> ""]
NoProc == [event |-> "none", code |-> 0, isNaN |-> FALSE, duration |-> 0,
           stderr |-> ""]

----------------------------------------------------------------------------
(* Small sequence helpers *)

SeqsUpTo(S, n) == UNION {[1..k -> S] : k \in 0..n}

Digits == <<"0", "1", "2", "3", "4", "5", "6", "7", "8", "9">>

RECURSIVE String(_)
String(n) == IF n < 10 THEN <<Digits[n + 1]>>
             ELSE String(n \div 10) \o <<Digits[(n % 10) + 1]>>

RECURSIVE padStart(_, _, _)
padStart(s, n, c) == IF Len(s) >= n THEN s ELSE padStart(<<c>> \o s, n, c)

Floor(num, den) == num \div den

\* Math.round of the non-negative rational num / den: half rounds up
Round(num, den) == (2 * num + den) \div (2 * den)

----------------------------------------------------------------------------
(* Time conversion *)

formatTime(seconds) ==
    LET hours == Floor(seconds, Secs(3600))
        rem == seconds % Secs(3600)
        minutes == Floor(rem, Secs(60))
        remainingSeconds == rem % Secs(60)
        whole == Floor(remainingSeconds, TicksPerSecond)
        hh == padStart(String(hours), 2, "0")
        mm == padStart(String(minutes), 2, "0")
        ss == padStart(String(whole), 2, "0")
        ms == padStart(String(Round((remainingSeconds - Secs(whole)) * 1000,
                                    TicksPerSecond)), 3, "0")
    IN  hh \o <<":">> \o mm \o <<":">> \o ss \o <<".">> \o ms

cueTimeToSeconds(time) ==
    Secs(time.min * 60 + time.sec)
      + time.frame * (TicksPerSecond \div FramesPerSecond)

----------------------------------------------------------------------------
(* The environment: what the files hold and what the tools answer *)

Entries == {"tracklist2cue", "tracklist2mp3", "cue2mp3"}

ArgValues == {"", "p"}

\* the positional arguments an entry point reads (process.argv[2] onwards);
\* further arguments are never looked at
ArgsRead(e) == IF e = "cue2mp3" THEN 2 ELSE 4

\* INDEX 01 times a CUE sheet may hold (min, sec, frame)
CueTimes == {[min |-> 0, sec |-> 0, frame |-> 0],
             [min |-> 0, sec |-> 10, frame |-> 0],
             [min |-> 0, sec |-> 30, frame |-> 0],
             [min |-> 1, sec |-> 30, frame |-> 0],
             [min |-> 1, sec |-> 30, frame |-> 37]}

\* one TRACK of a parsed sheet: its INDEX 01, if it has one
SheetTracks == [hasIndex01 : {TRUE}, time : CueTimes]
                 \cup {[hasIndex01 |-> FALSE, time |-> [min |-> 0, sec |-> 0, frame |-> 0]]}

\* what cueParser.parse may return for a file already on disk
CueParseResults ==
    {[kind |-> "malformed", tracks |-> <<>>], [kind |-> "nofiles", tracks |-> <<>>]}
      \cup {[kind |-> "sheet", tracks |-> t] : t \in SeqsUpTo(SheetTracks, MaxTracks)}

\* MM:SS timestamps a tracklist line may start with
Timestamps == {[min |-> 0, sec |-> 10], [min |-> 0, sec |-> 30], [min |-> 1, sec |-> 30]}

TracklistContents == SeqsUpTo(Timestamps, MaxTracks) \ {<<>>}

\* durations ffprobe may print: shorter than a track start, whole, and with
\* a fraction of 0.9996 s
ProbeDurations == {Secs(5), Secs(120), Secs(120) + (TicksPerSecond \div 10000) * 9996}

ProbeOutcomes ==
    {[event |-> "close", code |-> c, isNaN |-> FALSE, duration |-> d, stderr |-> ""] :
        c \in {0, 1}, d \in ProbeDurations}
      \cup {[event |-> "close", code |-> c, isNaN |-> TRUE, duration |-> 0, stderr |-> "E"] :
              c \in {0, 1}}
      \cup {[event |-> "error", code |-> 0, isNaN |-> TRUE, duration |-> 0, stderr |-> ""]}

FfmpegOutcomes ==
    {[event |-> "close", code |-> 0, isNaN |-> FALSE, duration |-> 0, stderr |-> ""],
     [event |-> "close", code |-> 1, isNaN |-> FALSE, duration |-> 0, stderr |-> "E"],
     [event |-> "error", code |-> 0, isNaN |-> FALSE, duration |-> 0, stderr |-> ""]}

----------------------------------------------------------------------------
(* Tracklist -> CUE, on timestamps *)

\* parseTracklist forces the first entry's timestamp to "00:00"
firstTimestampZero(content) ==
    [k \in 1..Len(content) |->
        IF k = 1 THEN [min |-> 0, sec |-> 0] ELSE content[k]]

\* timestamp + ":00": the INDEX 01 time has zero frames
timeToFrames(time) == [min |-> time.min, sec |-> time.sec, frame |-> 0]

\* one TRACK with INDEX 01 per entry, in file order
generateCueFileContent(trackList) ==
    [k \in 1..Len(trackList) |->
        [hasIndex01 |-> TRUE, time |-> timeToFrames(trackList[k])]]

----------------------------------------------------------------------------
(* CUE -> tracks *)

\* tracks.sort((a, b) => a.startTimeSeconds - b.startTimeSeconds), stable
RECURSIVE Insert(_, _)
Insert(s, t) ==
    IF s = <<>> THEN <<t>>
    ELSE IF Head(s).startTimeSeconds <= t.startTimeSeconds
         THEN <<Head(s)>> \o Insert(Tail(s), t)
         ELSE <<t>> \o s

RECURSIVE sort(_)
sort(s) == IF s = <<>> THEN <<>>
           ELSE Insert(sort(SubSeq(s, 1, Len(s) - 1)), s[Len(s)])

\* .map(...).filter(Boolean): tracks without INDEX 01 are dropped
RECURSIVE mapTracks(_, _)
mapTracks(sheetTracks, k) ==
    IF k > Len(sheetTracks) THEN <<>>
    ELSE (IF sheetTracks[k].hasIndex01
          THEN <<[trackNumber |-> k,
                  startTimeSeconds |-> cueTimeToSeconds(sheetTracks[k].time)]>>
          ELSE <<>>) \o mapTracks(sheetTracks, k + 1)

----------------------------------------------------------------------------
(* The entry points *)

\* process.argv[k + 1]: undefined beyond the arguments given
Arg(k) == IF k <= Len(argv) THEN argv[k] ELSE Undefined

\* !value, for a string or undefined
Falsy(v) == v = Undefined \/ v = ""

\* a throw inside main's try block, or a rejected await there
Throw(e) == /\ err' = e
            /\ pc' = "catch"

\* console.error(usage); process.exit(1)
UsageExit == /\ diag' = diag \cup {"usage"}
             /\ exitStatus' = 1
             /\ pc' = "exited"

\* tracklist2cue: tracklistFile, audioFile, outputCueFile, albumTitle
Tracklist2CueMain ==
    /\ pc = "main"
    /\ entry = "tracklist2cue"
    /\ IF Falsy(Arg(1)) \/ Falsy(Arg(2)) \/ Falsy(Arg(4))
       THEN UsageExit
       ELSE /\ pc' = "convert"
            /\ UNCHANGED <<diag, exitStatus>>
    /\ UNCHANGED <<entry, argv, cueFile, cueContent, outDirExists, io,
                   convertFailed, tracks, totalDuration, i, outputFilePaths,
                   requests, running, probeProc, ffmpegProc, splitResult, err,
                   fnIn, fnOut>>

\* tracklist2mp3: tracklistFile, audioFile, albumTitle, outputFolder
Tracklist2Mp3Main ==
    /\ pc = "main"
    /\ entry = "tracklist2mp3"
    /\ IF Falsy(Arg(1)) \/ Falsy(Arg(2)) \/ Falsy(Arg(3)) \/ Falsy(Arg(4))
       THEN UsageExit
       ELSE /\ pc' = "convert"
            /\ UNCHANGED <<diag, exitStatus>>
    /\ UNCHANGED <<entry, argv, cueFile, cueContent, outDirExists, io,
                   convertFailed, tracks, totalDuration, i, outputFilePaths,
                   requests, running, probeProc, ffmpegProc, splitResult, err,
                   fnIn, fnOut>>

\* cue2mp3: cueFile, outputFolder
Cue2Mp3Main ==
    /\ pc = "main"
    /\ entry = "cue2mp3"
    /\ IF Falsy(Arg(1)) \/ Falsy(Arg(2))
       THEN UsageExit
       ELSE /\ pc' = "parse"
            /\ UNCHANGED <<diag, exitStatus>>
    /\ UNCHANGED <<entry, argv, cueFile, cueContent, outDirExists, io,
                   convertFailed, tracks, totalDuration, i, outputFilePaths,
                   requests, running, probeProc, ffmpegProc, splitResult, err,
                   fnIn, fnOut>>

\* the path convertTracklistToCue writes: argv[4] in tracklist2cue,
\* join(outputFolder, <name>.cue) in tracklist2mp3
outputCueFile == IF entry = "tracklist2cue" THEN Arg(3) ELSE "joined"

\* readFile, parseTracklist, generateCueFileContent, writeFile; any error is
\* caught and logged inside, the promise always resolves.  The tracklist is
\* there or not, and holds what it holds, when it is read; the write fails
\* for an empty path and when the output directory is missing.
convertTracklistToCue ==
    /\ pc = "convert"
    /\ \E readOk \in BOOLEAN, content \in TracklistContents, dirOk \in BOOLEAN :
         LET writeOk == /\ ~Falsy(outputCueFile)
                        /\ dirOk
                        /\ (entry = "tracklist2mp3" => outDirExists)
         IN  IF readOk /\ writeOk
             THEN /\ io' = io \cup {"readFile", "writeFile"}
                  /\ cueFile' = "generated"
                  /\ cueContent' = generateCueFileContent(firstTimestampZero(content))
                  /\ UNCHANGED <<convertFailed, diag>>
             ELSE /\ io' = io \cup (IF readOk THEN {"readFile", "writeFile"}
                                              ELSE {"readFile"})
                  /\ convertFailed' = TRUE
                  /\ diag' = diag \cup {"Error processing files"}
                  /\ UNCHANGED <<cueFile, cueContent>>
    /\ pc' = IF entry = "tracklist2cue" THEN "return" ELSE "parse"
    /\ UNCHANGED <<entry, argv, outDirExists, exitStatus, tracks,
                   totalDuration, i, outputFilePaths, requests, running,
                   probeProc, ffmpegProc, splitResult, err, fnIn, fnOut>>

\* existsSync, cueParser.parse, the structure checks, map/filter, sort
parseCueFile ==
    /\ pc = "parse"
    /\ IF cueFile = "absent"
       THEN /\ io' = io \cup {"existsSync cue"}
            /\ Throw([NoError EXCEPT !.type = "CUE file not found"])
            /\ UNCHANGED tracks
       ELSE /\ io' = io \cup {"existsSync cue", "cueParser.parse"}
            /\ \E sheet \in (IF cueFile = "generated"
                             THEN {[kind |-> "sheet", tracks |-> cueContent]}
                             ELSE CueParseResults) :
                 IF sheet.kind = "malformed"
                 THEN /\ Throw([NoError EXCEPT !.type = "Error parsing CUE file"])
                      /\ UNCHANGED tracks
                 ELSE IF sheet.kind = "nofiles"
                 THEN /\ Throw([NoError EXCEPT !.type = "No file entries found"])
                      /\ UNCHANGED tracks
                 ELSE IF sheet.tracks = <<>>
                 THEN /\ Throw([NoError EXCEPT !.type = "No tracks found"])
                      /\ UNCHANGED tracks
                 ELSE /\ tracks' = sort(mapTracks(sheet.tracks, 1))
                      /\ pc' = "split"
                      /\ UNCHANGED err
    /\ UNCHANGED <<entry, argv, cueFile, cueContent, outDirExists, diag,
                   exitStatus, convertFailed, totalDuration, i,
                   outputFilePaths, requests, running, probeProc, ffmpegProc,
                   splitResult, fnIn, fnOut>>

----------------------------------------------------------------------------
(* splitMp3WithCue *)

\* a throw or rejected await inside splitMp3WithCue: its promise rejects
\* and the caller's await throws
Reject(e) == /\ splitResult' = "rejected"
             /\ Throw(e)

\* up to the spawn of ffprobe: the input file check, the empty track list
\* check, mkdir of a missing output directory
splitMp3WithCue ==
    /\ pc = "split"
    /\ \E audioExists \in BOOLEAN, mkdirOk \in BOOLEAN :
         IF ~audioExists
         THEN /\ io' = io \cup {"existsSync audio"}
              /\ Reject([NoError EXCEPT !.type = "Input audio file not found"])
              /\ UNCHANGED <<outDirExists, running>>
         ELSE IF Len(tracks) = 0
         THEN /\ io' = io \cup {"existsSync audio"}
              /\ Reject([NoError EXCEPT !.type = "No tracks provided"])
              /\ UNCHANGED <<outDirExists, running>>
         ELSE IF ~outDirExists /\ ~mkdirOk
         THEN /\ io' = io \cup {"existsSync audio", "existsSync dir", "mkdir"}
              /\ Reject([NoError EXCEPT !.type = "mkdir failed"])
              /\ UNCHANGED <<outDirExists, running>>
         ELSE /\ io' = io \cup {"existsSync audio", "existsSync dir", "spawn ffprobe"}
                          \cup (IF outDirExists THEN {} ELSE {"mkdir"})
              /\ outDirExists' = TRUE
              /\ running' = running \cup {<<"ffprobe", 0>>}
              /\ pc' = "probe"
              /\ UNCHANGED <<err, splitResult>>
    /\ UNCHANGED <<entry, argv, cueFile, cueContent, diag, exitStatus,
                   convertFailed, tracks, totalDuration, i, outputFilePaths,
                   requests, probeProc, ffmpegProc, fnIn, fnOut>>

\* mutant of ProbeResolves: the exit code is not looked at
ProbeResolvesAnyCode(o) == o.event = "close" /\ ~o.isNaN

\* getMp3Duration resolves: close with code 0 and a parsable duration
ProbeResolves(o) == o.event = "close" /\ o.code = 0 /\ ~o.isNaN

\* the close / error handlers of getMp3Duration and the await on it
getMp3Duration ==
    /\ pc = "probe"
    /\ \E o \in ProbeOutcomes :
         /\ probeProc' = o
         /\ running' = running \ {<<"ffprobe", 0>>}
         /\ IF ProbeResolves(o)
            THEN /\ totalDuration' = o.duration
                 /\ i' = 1
                 /\ pc' = "loop"
                 /\ UNCHANGED <<err, splitResult>>
            ELSE /\ Reject(IF o.event = "error"
                           THEN [NoError EXCEPT !.type = "Failed to start ffprobe"]
                           ELSE IF o.code = 0
                           THEN [NoError EXCEPT !.type = "Could not parse duration",
                                                !.stderr = o.stderr]
                           ELSE [type |-> "ffprobe exited", hasCode |-> TRUE,
                                 code |-> o.code, stderr |-> o.stderr])
                 /\ UNCHANGED <<totalDuration, i>>
    /\ UNCHANGED <<entry, argv, cueFile, cueContent, outDirExists, io, diag,
                   exitStatus, convertFailed, tracks, outputFilePaths,
                   requests, ffmpegProc, fnIn, fnOut>>

\* const startTime = currentTrack.startTimeSeconds
startTime(k) == tracks[k].startTimeSeconds

\* mutant of endTime: every track runs to the end of the recording
endTimeTotal(k) == totalDuration

\* const endTime = nextTrack ? nextTrack.startTimeSeconds : totalDuration
endTime(k) == IF k + 1 <= Len(tracks) THEN tracks[k + 1].startTimeSeconds
              ELSE totalDuration

\* mutant of skipSegment: an empty window is not skipped
skipSegmentStrict(k) == startTime(k) > endTime(k)

\* if (startTime >= endTime) continue
skipSegment(k) == startTime(k) >= endTime(k)

\* the ffmpeg invocation for track k: -ss and -t, and the track metadata
ffmpegArgs(k) ==
    [idx |-> k,
     track |-> tracks[k].trackNumber,
     start |-> startTime(k),
     duration |-> endTime(k) - startTime(k),
     ss |-> formatTime(startTime(k)),
     t |-> formatTime(endTime(k) - startTime(k))]

\* mutant of awaitFfmpeg: the promise is not awaited, the loop goes on
noAwaitFfmpeg == /\ pc' = "loop"
                 /\ i' = i + 1

\* await new Promise(...): the loop stands still until ffmpeg settles
awaitFfmpeg == /\ pc' = "ffmpeg"
               /\ i' = i

\* one pass of the for loop, up to the spawn of ffmpeg; or the return
SplitLoop ==
    /\ pc = "loop"
    /\ IF i > Len(tracks)
       THEN /\ splitResult' = "resolved"
            /\ pc' = "resolved"
            /\ UNCHANGED <<i, outputFilePaths, requests, running, io, diag>>
       ELSE IF skipSegment(i)
       THEN /\ i' = i + 1
            /\ diag' = diag \cup {"Skipping invalid segment"}
            /\ UNCHANGED <<pc, splitResult, outputFilePaths, requests, running, io>>
       ELSE /\ outputFilePaths' = Append(outputFilePaths, tracks[i].trackNumber)
            /\ requests' = Append(requests, ffmpegArgs(i))
            /\ running' = running \cup {<<"ffmpeg", i>>}
            /\ io' = io \cup {"spawn ffmpeg"}
            /\ awaitFfmpeg
            /\ UNCHANGED <<splitResult, diag>>
    /\ UNCHANGED <<entry, argv, cueFile, cueContent, outDirExists, exitStatus,
                   convertFailed, tracks, totalDuration, probeProc,
                   ffmpegProc, err, fnIn, fnOut>>

\* the close / error handlers of the ffmpeg process and the await on it;
\* stderr is not read, the Error names the exit code and the file only
FfmpegSettle ==
    /\ pc = "ffmpeg"
    /\ \E o \in FfmpegOutcomes :
         /\ ffmpegProc' = o
         /\ running' = running \ {<<"ffmpeg", i>>}
         /\ IF o.event = "close" /\ o.code = 0
            THEN /\ i' = i + 1
                 /\ pc' = "loop"
                 /\ UNCHANGED <<err, splitResult, diag>>
            ELSE /\ Reject(IF o.event = "error"
                           THEN [NoError EXCEPT !.type = "Failed to start ffmpeg"]
                           ELSE [type |-> "ffmpeg exited", hasCode |-> TRUE,
                                 code |-> o.code, stderr |-> ""])
                 /\ diag' = diag \cup {"ffmpeg failed"}
                 /\ UNCHANGED i
    /\ UNCHANGED <<entry, argv, cueFile, cueContent, outDirExists, io,
                   exitStatus, convertFailed, tracks, totalDuration,
                   outputFilePaths, requests, probeProc, fnIn, fnOut>>

----------------------------------------------------------------------------
(* The tail of main *)

\* console.log of the generated files, then main returns
MainLogFiles ==
    /\ pc = "resolved"
    /\ pc' = "return"
    /\ UNCHANGED <<pipeVars, fnIn, fnOut>>

\* catch (error): the message and the install hint, then main returns
MainCatch ==
    /\ pc = "catch"
    /\ diag' = diag \cup {"An error occurred", "hint"}
    /\ pc' = "return"
    /\ UNCHANGED <<entry, argv, cueFile, cueContent, outDirExists, io,
                   exitStatus, convertFailed, tracks, totalDuration, i,
                   outputFilePaths, requests, running, probeProc, ffmpegProc,
                   splitResult, err, fnIn, fnOut>>

\* main's promise resolved and nothing is pending: node exits with 0
ProcessExit ==
    /\ pc = "return"
    /\ exitStatus' = 0
    /\ pc' = "exited"
    /\ UNCHANGED <<entry, argv, cueFile, cueContent, outDirExists, io, diag,
                   convertFailed, tracks, totalDuration, i, outputFilePaths,
                   requests, running, probeProc, ffmpegProc, splitResult, err,
                   fnIn, fnOut>>

----------------------------------------------------------------------------
(* The pipeline specification *)

Init ==
    /\ entry \in Entries
    /\ argv \in SeqsUpTo(ArgValues, ArgsRead(entry))
    /\ pc = "main"
    /\ cueFile \in {"absent", "present"}
    /\ cueContent = <<>>
    /\ outDirExists \in BOOLEAN
    /\ io = {}
    /\ diag = {}
    /\ exitStatus = -1
    /\ convertFailed = FALSE
    /\ tracks = <<>>
    /\ totalDuration = 0
    /\ i = 0
    /\ outputFilePaths = <<>>
    /\ requests = <<>>
    /\ running = {}
    /\ probeProc = NoProc
    /\ ffmpegProc = NoProc
    /\ splitResult = "none"
    /\ err = NoError
    /\ fnIn = <<>>
    /\ fnOut = <<>>

Next ==
    \/ Tracklist2CueMain
    \/ Tracklist2Mp3Main
    \/ Cue2Mp3Main
    \/ convertTracklistToCue
    \/ parseCueFile
    \/ splitMp3WithCue
    \/ getMp3Duration
    \/ SplitLoop
    \/ FfmpegSettle
    \/ MainLogFiles
    \/ MainCatch
    \/ ProcessExit

Spec == Init /\ [][Next]_vars

----------------------------------------------------------------------------
(* String operations of parseTracklist, on sequences of characters *)

Chars == {"0", " ", "-", "a", "\n", "\r"}

WhiteSpace == {" ", "\n", "\r", "\t"}

Delimiter == <<" ", "-", " ">>

RECURSIVE trimStart(_)
trimStart(s) == IF s # <<>> /\ Head(s) \in WhiteSpace THEN trimStart(Tail(s)) ELSE s

RECURSIVE trimEnd(_)
trimEnd(s) == IF s # <<>> /\ s[Len(s)] \in WhiteSpace
              THEN trimEnd(SubSeq(s, 1, Len(s) - 1)) ELSE s

trim(s) == trimEnd(trimStart(s))

\* position of the first occurrence of d in s at or after k, 0 if none
RECURSIVE indexOf(_, _, _)
indexOf(s, d, k) ==
    IF k + Len(d) - 1 > Len(s) THEN 0
    ELSE IF SubSeq(s, k, k + Len(d) - 1) = d THEN k
    ELSE indexOf(s, d, k + 1)

\* s.split(d) for a non-empty d
RECURSIVE split(_, _)
split(s, d) ==
    LET k == indexOf(s, d, 1)
    IN  IF k = 0 THEN <<s>>
        ELSE <<SubSeq(s, 1, k - 1)>> \o split(SubSeq(s, k + Len(d), Len(s)), d)

RECURSIVE join(_, _)
join(pieces, d) ==
    IF pieces = <<>> THEN <<>>
    ELSE IF Len(pieces) = 1 THEN pieces[1]
    ELSE pieces[1] \o d \o join(Tail(pieces), d)

\* s.replaceAll(c, '') for one character c
replaceAll(s, c) == SelectSeq(s, LAMBDA x : x # c)

\* s.replace(pattern, ''): the first occurrence only
replace(s, pattern) ==
    LET k == indexOf(s, pattern, 1)
    IN  IF k = 0 THEN s
        ELSE SubSeq(s, 1, k - 1) \o SubSeq(s, k + Len(pattern), Len(s))

after(value, delimiter) ==
    IF value = <<>> THEN value
    ELSE LET substrings == split(value, delimiter)
         IN  IF Len(substrings) = 1 THEN value
             ELSE join(Tail(substrings), delimiter)

\* the callback of .map((line, index) => ...), index counted from 1
parseLine(line, index) ==
    LET first == split(line, <<" ">>)[1]
        timestamp == IF first = <<>> THEN <<"0", ":", "0", "0">> ELSE first
        withoutTimestamp == replaceAll(after(line, timestamp \o <<" ">>), "\r")
        title == after(withoutTimestamp, Delimiter)
        artist == replace(withoutTimestamp, Delimiter \o title)
    IN  [timestamp |-> IF index = 1 THEN <<"0", "0", ":", "0", "0">> ELSE timestamp,
         artist |-> artist,
         title |-> title]

parseTracklist(tracklist) ==
    LET lines == split(trim(tracklist), <<"\n">>)
    IN  [index \in 1..Len(lines) |-> parseLine(lines[index], index)]

----------------------------------------------------------------------------
(* Specifications of the pure functions: the input is any value of a       *)
(* bounded set, the one action applies the function.                       *)

PipelineIdle ==
    /\ entry = "none"
    /\ argv = <<>>
    /\ cueFile = "absent"
    /\ cueContent = <<>>
    /\ outDirExists = FALSE
    /\ io = {}
    /\ diag = {}
    /\ exitStatus = -1
    /\ convertFailed = FALSE
    /\ tracks = <<>>
    /\ totalDuration = 0
    /\ i = 0
    /\ outputFilePaths = <<>>
    /\ requests = <<>>
    /\ running = {}
    /\ probeProc = NoProc
    /\ ffmpegProc = NoProc
    /\ splitResult = "none"
    /\ err = NoError

TracklistTexts == SeqsUpTo(Chars, MaxLen)

InitParse ==
    /\ PipelineIdle
    /\ pc = "call"
    /\ fnIn \in TracklistTexts
    /\ fnOut = <<>>

ParseTracklistCall ==
    /\ pc = "call"
    /\ fnOut' = parseTracklist(fnIn)
    /\ pc' = "returned"
    /\ UNCHANGED <<pipeVars, fnIn>>

NextParse == ParseTracklistCall

SpecParse == InitParse /\ [][NextParse]_vars

\* fractions of a second, in ticks: none, 0.0005 s, frame 37 of 75,
\* 0.9994 s and 0.9996 s
Fractions == {0, TicksPerSecond \div 2000, 37 * (TicksPerSecond \div FramesPerSecond),
              (TicksPerSecond \div 10000) * 9994, (TicksPerSecond \div 10000) * 9996}

FormatInputs ==
    {Secs(h * 3600 + m * 60 + s) + f :
        h \in 0..MaxHours, m \in {0, 1, 59}, s \in {0, 30, 59}, f \in Fractions}

InitFormat ==
    /\ PipelineIdle
    /\ pc = "call"
    /\ fnIn \in FormatInputs
    /\ fnOut = <<>>

FormatTimeCall ==
    /\ pc = "call"
    /\ fnOut' = formatTime(fnIn)
    /\ pc' = "returned"
    /\ UNCHANGED <<pipeVars, fnIn>>

NextFormat == FormatTimeCall

SpecFormat == InitFormat /\ [][NextFormat]_vars

----------------------------------------------------------------------------
(* Properties of splitMp3WithCue *)

Starts == [k \in 1..Len(tracks) |-> tracks[k].startTimeSeconds]

\* the end of track k's window: the next start, or the probed duration
WindowEnd(k) == IF k < Len(tracks) THEN Starts[k + 1] ELSE totalDuration

\* the windows requested so far, as <<offset, duration>>
Windows == [r \in 1..Len(requests) |-> <<requests[r].start, requests[r].duration>>]

RequestedIdx == {requests[r].idx : r \in 1..Len(requests)}

\* C1: every extraction request for track k carries the offset start_k and
\* the duration end_k - start_k, where end_k is the next track's start, or
\* the probed total duration for the last track (both formatted by
\* formatTime); a run that resolves has requested every non-empty window;
\* starts [0, 30, 90] with total 120 give exactly [0,30), [30,90), [90,120).
C1_Windows ==
    /\ \A r \in 1..Len(requests) :
         LET q == requests[r]
         IN  /\ q.idx \in 1..Len(tracks)
             /\ q.start = Starts[q.idx]
             /\ q.start + q.duration = WindowEnd(q.idx)
             /\ q.ss = formatTime(Starts[q.idx])
             /\ q.t = formatTime(WindowEnd(q.idx) - Starts[q.idx])
    /\ splitResult = "resolved" =>
         \A k \in 1..Len(tracks) : Starts[k] < WindowEnd(k) => k \in RequestedIdx
    /\ (splitResult = "resolved" /\ Starts = <<Secs(0), Secs(30), Secs(90)>>
          /\ totalDuration = Secs(120)) =>
         Windows = <<<<Secs(0), Secs(30)>>, <<Secs(30), Secs(60)>>,
                     <<Secs(90), Secs(30)>>>>

C1_Witness ==
    /\ splitResult = "resolved"
    /\ Starts = <<Secs(0), Secs(30), Secs(90)>>
    /\ totalDuration = Secs(120)
    /\ Len(requests) = 3

\* C2 as stated: with starts [10, 10] and a longer recording the SECOND
\* track is the one skipped, leaving one output file.
C2_SecondTrackSkipped ==
    (splitResult = "resolved" /\ Starts = <<Secs(10), Secs(10)>>
       /\ totalDuration > Secs(10)) =>
      (2 \notin RequestedIdx /\ Len(outputFilePaths) = 1)

\* C2 amended: no request ever has an empty window, a track whose start
\* equals the next track's start is never requested, and with starts
\* [10, 10] and a longer recording the FIRST track is the one skipped: the
\* run resolves with the single request [10, total) for the second track
\* and one output file fewer than tracks.
C2_FirstTrackSkipped ==
    /\ \A r \in 1..Len(requests) : requests[r].duration > 0
    /\ \A k \in 1..Len(tracks) :
         (k < Len(tracks) /\ Starts[k] = Starts[k + 1]) => k \notin RequestedIdx
    /\ (splitResult = "resolved" /\ Starts = <<Secs(10), Secs(10)>>
          /\ totalDuration > Secs(10)) =>
         /\ RequestedIdx = {2}
         /\ Windows = <<<<Secs(10), totalDuration - Secs(10)>>>>
         /\ Len(outputFilePaths) = Len(tracks) - 1

C2_Witness ==
    /\ splitResult = "resolved"
    /\ Starts = <<Secs(10), Secs(10)>>
    /\ totalDuration > Secs(10)
    /\ "Skipping invalid segment" \in diag
    /\ err = NoError

FfmpegErrors == {"ffmpeg exited", "Failed to start ffmpeg"}

\* C3: once an extraction fails no later track is requested, the function
\* rejects, and the Error carries the exit code and the stderr of the
\* failing process.
C3_ErrorCarriesCodeAndStderr ==
    err.type \in FfmpegErrors =>
      /\ splitResult = "rejected"
      /\ \A r \in 1..Len(requests) : requests[r].idx <= i
      /\ ffmpegProc.event = "close" => (err.hasCode /\ err.code = ffmpegProc.code)
      /\ err.stderr = ffmpegProc.stderr

\* C4: after an extraction failure the process prints a diagnostic and
\* never ends with status 0.
C4_ExtractionFailureExitsNonZero ==
    (pc = "exited" /\ err.type \in FfmpegErrors) =>
      ("An error occurred" \in diag /\ exitStatus # 0)

\* the positional arguments each entry point needs
Required == IF entry = "cue2mp3" THEN 1..2 ELSE 1..4

\* C5: with a required argument absent or empty, main does no I/O and goes
\* nowhere but to the usage message and exit status 1.
C5_MissingArgumentExits ==
    (\E k \in Required : Falsy(Arg(k))) =>
      /\ io = {}
      /\ pc \in {"main", "exited"}
      /\ pc = "exited" => (exitStatus = 1 /\ "usage" \in diag)

\* C6: in the combined pipeline, after a failed tracklist -> CUE step no
\* CUE is parsed, no duration probed and no extraction requested.
C6_ConvertFailureAborts ==
    (entry = "tracklist2mp3" /\ convertFailed) =>
      io \cap {"cueParser.parse", "spawn ffprobe", "spawn ffmpeg"} = {}

\* C8: at most one subprocess is outstanding at any time, ffmpeg is only
\* spawned once ffprobe has closed, and the requests are issued in ascending
\* order of the sorted track list (so by non-decreasing start time).
C8_OneSubprocessAtATime ==
    /\ Cardinality(running) <= 1
    /\ running # {} => pc \in {"probe", "ffmpeg"}
    /\ requests # <<>> => <<"ffprobe", 0>> \notin running
    /\ \A r, q \in 1..Len(requests) :
         r < q => /\ requests[r].idx < requests[q].idx
                  /\ requests[r].start <= requests[q].start

C8_Witness ==
    /\ Len(requests) = 3
    /\ running = {<<"ffmpeg", 3>>}

\* C9: a run whose duration probe failed (spawn error, non-zero exit or an
\* unparsable output) rejects and never issues an extraction request.
C9_ProbeFailureNoExtraction ==
    (probeProc.event # "none"
       /\ ~(probeProc.event = "close" /\ probeProc.code = 0 /\ ~probeProc.isNaN)) =>
      /\ requests = <<>>
      /\ "spawn ffmpeg" \notin io
      /\ splitResult = "rejected"
      /\ pc \in {"catch", "return", "exited"}

C9_Witness ==
    /\ probeProc.event = "close"
    /\ probeProc.code = 1
    /\ ~probeProc.isNaN
    /\ pc = "exited"
    /\ Len(tracks) > 1

----------------------------------------------------------------------------
(* Properties of the pure functions *)

\* the line is a token, a space, and the rest
HasToken(line) == indexOf(line, <<" ">>, 1) > 1

\* what follows the first space of the line, carriage returns removed
Remainder(line) ==
    replaceAll(SubSeq(line, indexOf(line, <<" ">>, 1) + 1, Len(line)), "\r")

\* C7: for every line with a timestamp token and no " - " delimiter the
\* entry's artist is empty and its title is the whole remainder.
C7_NoDelimiterArtistEmpty ==
    pc = "returned" =>
      LET lines == split(trim(fnIn), <<"\n">>)
      IN  \A k \in 1..Len(lines) :
            (HasToken(lines[k]) /\ indexOf(lines[k], Delimiter, 1) = 0) =>
              /\ fnOut[k].artist = <<>>
              /\ fnOut[k].title = Remainder(lines[k])

DigitChars == {Digits[d] : d \in 1..10}

\* C10: formatTime returns HH:MM:SS.mmm: two-digit fields, seconds in
\* 00..59 and exactly three digits of milliseconds.
C10_ClockStringForm ==
    pc = "returned" =>
      /\ Len(fnOut) = 12
      /\ \A k \in {1, 2, 4, 5, 7, 8, 10, 11, 12} : fnOut[k] \in DigitChars
      /\ fnOut[3] = ":" /\ fnOut[6] = ":" /\ fnOut[9] = "."
      /\ fnOut[7] \in {"0", "1", "2", "3", "4", "5"}

====
